---- MODULE Spec2Model ----
(***************************************************************************)
(* A state-machine model of AliAnalysisTaskDimu (AliAnalysisTaskDimu.cxx): *)
(* the tracklet-distance cut configuration, the lazily filled collection   *)
(* of mergeable objects, and the per-event pair loop of UserExec.          *)
(*                                                                         *)
(* Conventions                                                             *)
(*  - A Double_t cut or distance x is the integer x * 10^6.                *)
(*  - An azimuth is an integer number of pi/4: 2*pi is TwoPi, pi/2 HalfPi. *)
(*  - A TString is a sequence of one-character strings or of opaque        *)
(*    tokens (a trigger class name is one token); Form() concatenates.     *)
(*  - Sequences are 1-based: the vector slot icut of the code is icut + 1. *)
(***************************************************************************)
EXTENDS Integers, Sequences, FiniteSets, Bags, TLC

(* ------------------------------ bounds -------------------------------- *)
\* longest array handed to SetTrackletDistCuts
MaxCuts == 2
\* most tracklets of one event's AliMultiplicity
MaxHits == 2
\* most selected tracks of one pass
MaxTracks == 2
\* most events one task instance processes
MaxEvents == 2
\* most task instances whose output is merged
MaxWorkers == 3
\* most events over all the merged task instances
MaxMergeEvents == 3
\* direct GetMergeableObject requests stop once this many objects were made
MaxObjects == 3
\* longest pair type label, longest allow-list
MaxLabel == 2
MaxList == 3
\* most selected tracks of one pass where the pairs are enumerated
MaxPairTracks == 3

(* ------------------------- program constants --------------------------- *)
\* 2.*TMath::Pi() and TMath::Pi()/2. in units of pi/4
TwoPi == 8
HalfPi == 2
\* enum value compared with istep
kStepReconstructed == 0

VARIABLES fTrackletDistCuts, fSelectedPairTypes, fSparse, fMergeableCollection, history, nCreated, outputs, merged, last

vars == <<fTrackletDistCuts, fSelectedPairTypes, fSparse, fMergeableCollection, history, nCreated, outputs, merged, last>>

(* ------------------------------ helpers -------------------------------- *)
Abs(x) == IF x < 0 THEN -x ELSE x

Range(s) == {s[i] : i \in 1..Len(s)}

SeqsUpTo(S, n) == UNION {[1..k -> S] : k \in 0..n}

RECURSIVE Flatten(_)
Flatten(ss) == IF ss = <<>> THEN <<>> ELSE Head(ss) \o Flatten(Tail(ss))

(* ------------------- SetTrackletDistCuts (l.125-136) ------------------- *)
\* std::sort(begin, end, std::greater<Double_t>()): a non-increasing permutation
RECURSIVE InsertDesc(_, _)
InsertDesc(x, s) ==
    IF s = <<>> THEN <<x>>
    ELSE IF x >= Head(s) THEN <<x>> \o s
    ELSE <<Head(s)>> \o InsertDesc(x, Tail(s))

RECURSIVE SortDesc(_)
SortDesc(s) == IF s = <<>> THEN <<>> ELSE InsertDesc(Head(s), SortDesc(Tail(s)))

\* a plausible slip: the pushed values are left in the caller's order
SetTrackletDistCutsUnsorted(old, cuts) ==
    LET cleared == IF old /= <<>> THEN <<>> ELSE old
    IN  cleared \o cuts

\* the vector after SetTrackletDistCuts(cuts, Len(cuts)) on a task holding old
SetTrackletDistCuts(old, cuts) ==
    LET cleared == IF old /= <<>> THEN <<>> ELSE old
    IN  SortDesc(cleared \o cuts)

(* ------------------ Form("trackletDistCuts_%g", val) ------------------- *)
Digit(d) == <<"0", "1", "2", "3", "4", "5", "6", "7", "8", "9">>[d + 1]

RECURSIVE StripZeros(_)
StripZeros(ds) ==
    IF ds /= <<>> /\ ds[Len(ds)] = 0 THEN StripZeros(SubSeq(ds, 1, Len(ds) - 1)) ELSE ds

\* %g of a value in [1, 10): six significant digits, trailing zeros removed
FormatG(val) ==
    LET r == (val + 5) \div 10
        frac == StripZeros([k \in 1..5 |-> (r \div (10 ^ (5 - k))) % 10])
    IN  IF r >= 1000000 THEN <<"1", "0">>
        ELSE <<Digit(r \div 100000)>>
             \o (IF frac = <<>> THEN <<>> ELSE <<".">> \o [k \in 1..Len(frac) |-> Digit(frac[k])])

\* trackletDistCutsName: one name per cut, then "trackletDistCuts_none"
TrackletDistCutsName(cuts) ==
    [k \in 1..(Len(cuts) + 1) |->
        IF k <= Len(cuts) THEN <<"trackletDistCuts_">> \o FormatG(cuts[k])
        ELSE <<"trackletDistCuts_", "none">>]

(* ------------- the tracklet scan of UserExec (l.340-357) --------------- *)
\* a slip: the loop on icut starts at the second cut
RECURSIVE ScanCutsFromSecond(_, _, _, _)
ScanCutsFromSecond(counts, dist, cuts, icut) ==
    IF icut = 1 /\ Len(cuts) >= 1 THEN ScanCutsFromSecond(counts, dist, cuts, 2)
    ELSE IF icut > Len(cuts) THEN counts
    ELSE IF dist > cuts[icut] THEN counts
    ELSE ScanCutsFromSecond([counts EXCEPT ![icut] = @ + 1], dist, cuts, icut + 1)

\* the loop on icut: stops at the first cut the distance exceeds
RECURSIVE ScanCuts(_, _, _, _)
ScanCuts(counts, dist, cuts, icut) ==
    IF icut > Len(cuts) THEN counts
    ELSE IF dist > cuts[icut] THEN counts
    ELSE ScanCuts([counts EXCEPT ![icut] = @ + 1], dist, cuts, icut + 1)

\* the loop on itrk: tracklets outside the window are skipped, the others
\* are counted per cut and in the last slot
RECURSIVE ScanTracklets(_, _, _, _, _)
ScanTracklets(counts, phi, hits, cuts, itrk) ==
    IF itrk > Len(hits) THEN counts
    ELSE IF Abs(phi - hits[itrk].phi) > HalfPi
         THEN ScanTracklets(counts, phi, hits, cuts, itrk + 1)
    ELSE LET perCut == ScanCuts(counts, hits[itrk].dist, cuts, 1)
             all == [perCut EXCEPT ![Len(cuts) + 1] = @ + 1]
         IN  ScanTracklets(all, phi, hits, cuts, itrk + 1)

\* nTrackletsPerCut for one pair: zeroed and rescanned when the event has an
\* AliMultiplicity, left at its initial zeros otherwise
NTrackletsPerCut(cuts, phi, mult, hits) ==
    LET zeros == [k \in 1..(Len(cuts) + 1) |-> 0]
    IN  IF mult THEN ScanTracklets(zeros, phi, hits, cuts, 1) ELSE zeros

(* ------------- the pair type allow-list (l.324-327) -------------------- *)
\* fSelectedPairTypes.Contains(TPRegexp(Form("(^|,)%s(,|$)", pairType))):
\* the label is spliced into the pattern, so its "." matches any character;
\* the match starts at the string's start or after a comma and ends before
\* a comma or at the string's end.  p is where the label's part starts.
Contains(list, pairType) ==
    \E p \in 1..(Len(list) + 1) :
        /\ p = 1 \/ list[p - 1] = ","
        /\ p + Len(pairType) - 1 <= Len(list)
        /\ \A k \in 1..Len(pairType) :
              pairType[k] = "." \/ pairType[k] = list[p + k - 1]
        /\ p + Len(pairType) = Len(list) + 1 \/ list[p + Len(pairType)] = ","

\* the pair survives: no allow-list, or the pattern is found in it
PairTypeSelected(list, pairType) == list = <<>> \/ Contains(list, pairType)

(* -------------- the collection of mergeable objects -------------------- *)
\* The collection is the list of its objects in the order of adoption; an
\* object is [identifier, name, kind, content], content a bag of bins.
NullObject == [isNull |-> TRUE, name |-> "", kind |-> "", content |-> EmptyBag]

\* AliMergeableCollection::GetObject(identifier, objectName): the position
\* of the object, 0 when there is none
GetObject(coll, identifier, objectName) ==
    LET at == {k \in 1..Len(coll) : coll[k].identifier = identifier /\ coll[k].name = objectName}
    IN  IF at = {} THEN 0 ELSE CHOOSE k \in at : \A m \in at : k <= m

\* AliMergeableCollection::Adopt(identifier, obj): a null object and an
\* object whose name is taken at the identifier are refused
Adopt(coll, identifier, obj) ==
    IF obj.isNull THEN coll
    ELSE IF GetObject(coll, identifier, obj.name) /= 0 THEN coll
    ELSE Append(coll, [identifier |-> identifier, name |-> obj.name, kind |-> obj.kind, content |-> obj.content])

\* fSparse->Clone(objectName): a copy of the template, bins included
Clone(sparse, objectName) ==
    [isNull |-> FALSE, name |-> objectName, kind |-> "THnSparse", content |-> sparse.content]

\* new TH1D(objectName, objectName, 1, 0.5, 1.5)
NewTH1D(objectName) ==
    [isNull |-> FALSE, name |-> objectName, kind |-> "TH1D", content |-> EmptyBag]

\* what GetMergeableObject hands back once obj is made and offered: obj is
\* the object's position in the collection, 0 for a null pointer, -1 for an
\* object the collection refused
Offered(coll, identifier, obj) ==
    LET after == Adopt(coll, identifier, obj)
    IN  [coll |-> after,
         obj |-> IF obj.isNull THEN 0 ELSE IF Len(after) > Len(coll) THEN Len(after) ELSE -1,
         created |-> IF obj.isNull THEN 0 ELSE 1,
         error |-> obj.isNull]

\* a slip: the lookup is skipped, every request makes a new object
GetMergeableObjectNoLookup(coll, sparse, identifier, objectName) ==
    Offered(coll, identifier,
            IF objectName = "DimuSparse" THEN Clone(sparse, objectName) ELSE NewTH1D(objectName))

\* a slip: every name but "DimuSparse" gets the one-bin histogram
GetMergeableObjectAnyName(coll, sparse, identifier, objectName) ==
    IF GetObject(coll, identifier, objectName) /= 0
    THEN [coll |-> coll, obj |-> GetObject(coll, identifier, objectName), created |-> 0, error |-> FALSE]
    ELSE Offered(coll, identifier,
                 IF objectName = "DimuSparse" THEN Clone(sparse, objectName) ELSE NewTH1D(objectName))

\* a slip: the clone is taken from the collection's latest object, which
\* has been filled, instead of from the empty template
GetMergeableObjectCloneFilled(coll, sparse, identifier, objectName) ==
    IF GetObject(coll, identifier, objectName) /= 0
    THEN [coll |-> coll, obj |-> GetObject(coll, identifier, objectName), created |-> 0, error |-> FALSE]
    ELSE Offered(coll, identifier,
                 IF objectName = "DimuSparse"
                 THEN Clone(IF coll = <<>> THEN sparse ELSE coll[Len(coll)], objectName)
                 ELSE IF objectName = "nevents" THEN NewTH1D(objectName)
                 ELSE NullObject)

\* GetMergeableObject(identifier, objectName)
GetMergeableObject(coll, sparse, identifier, objectName) ==
    IF GetObject(coll, identifier, objectName) /= 0
    THEN [coll |-> coll, obj |-> GetObject(coll, identifier, objectName), created |-> 0, error |-> FALSE]
    ELSE Offered(coll, identifier,
                 IF objectName = "DimuSparse" THEN Clone(sparse, objectName)
                 ELSE IF objectName = "nevents" THEN NewTH1D(objectName)
                 ELSE NullObject)

\* TH1::Fill(1.) and THnSparse::Fill(containerInput, 1.) on the object of
\* GetMergeableObject: one more entry in the sample's bin; the collection
\* gains nothing from a fill of an object it does not hold
Fill(coll, obj, sample) ==
    IF obj <= 0 THEN coll
    ELSE [coll EXCEPT ![obj].content = @ (+) SetToBag({sample})]

(* --------------------------- UserExec (l.231-377) ---------------------- *)
\* An event is what the collaborators answer for it:
\*   selected   fMuonEventCuts.IsSelected
\*   hasMC      MCEvent() is not null
\*   trigs      the names of GetSelectedTrigClassesInEvent, in its order
\*   reco, gen  the charges of the tracks that pass the selection of the
\*              reconstructed and of the generated pass, in track order
\*   pairType   GetPairType's label for the event's pairs
\*   phi        dimuPair.Phi(), in (-pi, pi]
\*   kin        the bin of the pair's other coordinates and the centrality
\*   gate       the trigger classes whose pt cut the pairs match
\*   mult       GetMultiplicity() is an AliMultiplicity
\*   hits       its tracklets: [phi |-> GetPhi(itrk), dist |-> CalcDist(itrk)]

\* the passes: nSteps = MCEvent() ? 2 : 1
Steps(ev) == IF ev.hasMC THEN <<kStepReconstructed, kStepReconstructed + 1>> ELSE <<kStepReconstructed>>

\* selTrigClasses of a pass
SelTrigClasses(ev, istep) ==
    IF istep = kStepReconstructed THEN ev.trigs ELSE << <<"generated">> >>

\* the selected tracks of a pass
SelectedTracks(ev, istep) == IF istep = kStepReconstructed THEN ev.reco ELSE ev.gen

\* a slip: the trigger classes are counted after the test on nSelected
NeventsFillsIfPairs(ev, istep) ==
    LET trigs == SelTrigClasses(ev, istep)
    IN  IF Len(SelectedTracks(ev, istep)) < 2 THEN <<>>
        ELSE [k \in 1..Len(trigs) |->
                 [identifier |-> <<"/">> \o trigs[k], objectName |-> "nevents", sample |-> <<1>>]]

\* the request and fill of the "nevents" histogram of each trigger class
NeventsFills(ev, istep) ==
    LET trigs == SelTrigClasses(ev, istep)
    IN  [k \in 1..Len(trigs) |->
            [identifier |-> <<"/">> \o trigs[k], objectName |-> "nevents", sample |-> <<1>>]]

\* the pairs (itrack, jtrack) in the order of the two loops
TrackPairs(nSelected) ==
    SelectSeq([k \in 1..(nSelected * nSelected) |->
                  <<((k - 1) \div nSelected) + 1, ((k - 1) % nSelected) + 1>>],
              LAMBDA p : p[1] < p[2])

\* a slip: the loop on icut stops before the slot without a cut
PairFillsCutsOnly(cuts, ev, istep, chargeType, phi, counts) ==
    LET trigs == SelectSeq(SelTrigClasses(ev, istep),
                           LAMBDA t : istep /= kStepReconstructed \/ t \in ev.gate)
        names == TrackletDistCutsName(cuts)
    IN  Flatten([k \in 1..Len(trigs) |->
            [icut \in 1..Len(cuts) |->
                [trigClass |-> trigs[k], icut |-> icut,
                 identifier |-> <<"/">> \o trigs[k] \o <<"/">> \o names[icut]
                                \o <<"/">> \o ev.pairType \o <<"/">> \o <<chargeType>>,
                 objectName |-> "DimuSparse",
                 sample |-> <<ev.kin, phi, counts[icut]>>]]])

\* the fills of one pair for the trigger classes and the cut levels
PairFills(cuts, ev, istep, chargeType, phi, counts) ==
    LET trigs == SelectSeq(SelTrigClasses(ev, istep),
                           LAMBDA t : istep /= kStepReconstructed \/ t \in ev.gate)
        names == TrackletDistCutsName(cuts)
    IN  Flatten([k \in 1..Len(trigs) |->
            [icut \in 1..(Len(cuts) + 1) |->
                [trigClass |-> trigs[k], icut |-> icut,
                 identifier |-> <<"/">> \o trigs[k] \o <<"/">> \o names[icut]
                                \o <<"/">> \o ev.pairType \o <<"/">> \o <<chargeType>>,
                 objectName |-> "DimuSparse",
                 sample |-> <<ev.kin, phi, counts[icut]>>]]])

\* one pass of the body of the loop on jtrack
PairStep(cuts, sel, ev, istep, p) ==
    LET tracks == SelectedTracks(ev, istep)
        chargeType == IF tracks[p[1]] * tracks[p[2]] >= 0 THEN "SS" ELSE "OS"
        kept == PairTypeSelected(sel, ev.pairType)
        phi == IF ev.phi < 0 THEN ev.phi + TwoPi ELSE ev.phi
        counts == NTrackletsPerCut(cuts, phi, ev.mult, ev.hits)
    IN  [istep |-> istep, itrack |-> p[1], jtrack |-> p[2],
         chargeType |-> chargeType, pairType |-> ev.pairType, kept |-> kept, phi |-> phi,
         counts |-> IF kept THEN counts ELSE <<>>,
         fills |-> IF kept THEN PairFills(cuts, ev, istep, chargeType, phi, counts) ELSE <<>>]

\* the pairs of one pass: none when fewer than two tracks are selected
PairSteps(cuts, sel, ev, istep) ==
    LET nSelected == Len(SelectedTracks(ev, istep))
        pairs == TrackPairs(nSelected)
    IN  IF nSelected < 2 THEN <<>>
        ELSE [k \in 1..Len(pairs) |-> PairStep(cuts, sel, ev, istep, pairs[k])]

\* every pair visited by the event, pass after pass
EventPairs(cuts, sel, ev) ==
    IF ~ev.selected THEN <<>>
    ELSE Flatten([s \in 1..Len(Steps(ev)) |-> PairSteps(cuts, sel, ev, Steps(ev)[s])])

\* the requests to the collection in the order UserExec makes them
EventFills(cuts, sel, ev) ==
    Flatten([s \in 1..Len(Steps(ev)) |->
        LET istep == Steps(ev)[s]
            pairs == PairSteps(cuts, sel, ev, istep)
        IN  NeventsFills(ev, istep)
            \o Flatten([k \in 1..Len(pairs) |->
                   [f \in 1..Len(pairs[k].fills) |->
                       [identifier |-> pairs[k].fills[f].identifier,
                        objectName |-> pairs[k].fills[f].objectName,
                        sample |-> pairs[k].fills[f].sample]]])])

\* GetMergeableObject(identifier, objectName)->Fill(...) for each request
\* (st.created is never negative: the test makes the evaluation of st strict)
RECURSIVE ApplyFills(_, _, _)
ApplyFills(st, sparse, fills) ==
    IF fills = <<>> \/ st.created < 0 THEN st
    ELSE LET f == Head(fills)
             got == GetMergeableObject(st.coll, sparse, f.identifier, f.objectName)
         IN  ApplyFills([coll |-> Fill(got.coll, got.obj, f.sample),
                         created |-> st.created + got.created],
                        sparse, Tail(fills))

\* a slip: the trigger classes are counted before the event is tested
UserExecCountFirst(coll, sparse, cuts, sel, ev) ==
    IF ~ev.selected
    THEN ApplyFills([coll |-> coll, created |-> 0], sparse, NeventsFills(ev, kStepReconstructed))
    ELSE ApplyFills([coll |-> coll, created |-> 0], sparse, EventFills(cuts, sel, ev))

\* UserExec on one event: the collection after it and the objects it made
UserExec(coll, sparse, cuts, sel, ev) ==
    IF ~ev.selected THEN [coll |-> coll, created |-> 0]
    ELSE ApplyFills([coll |-> coll, created |-> 0], sparse, EventFills(cuts, sel, ev))

(* ------------------- merging the outputs of the tasks ------------------- *)
\* a merge that keeps the receiver's object where both hold one
RECURSIVE MergeKeepOwn(_, _)
MergeKeepOwn(receiver, other) ==
    IF other = <<>> \/ Len(receiver) < 0 THEN receiver
    ELSE MergeKeepOwn(Adopt(receiver, Head(other).identifier,
                            [isNull |-> FALSE, name |-> Head(other).name,
                             kind |-> Head(other).kind, content |-> Head(other).content]),
                      Tail(other))

\* Merge(other): an object of other whose path the receiver holds is added
\* to the receiver's bin by bin, any other object of other is adopted
\* (Len(receiver) is never negative: the test makes the evaluation strict)
RECURSIVE Merge(_, _)
Merge(receiver, other) ==
    IF other = <<>> \/ Len(receiver) < 0 THEN receiver
    ELSE LET o == Head(other)
             at == GetObject(receiver, o.identifier, o.name)
         IN  Merge(IF at /= 0
                   THEN [receiver EXCEPT ![at].content = @ (+) o.content]
                   ELSE Adopt(receiver, o.identifier,
                              [isNull |-> FALSE, name |-> o.name, kind |-> o.kind, content |-> o.content]),
                   Tail(other))

\* the merge stage: the outputs folded one at a time into an accumulator
RECURSIVE FoldMerge(_, _)
FoldMerge(acc, stores) ==
    IF stores = <<>> \/ Len(acc) < 0 THEN acc ELSE FoldMerge(Merge(acc, Head(stores)), Tail(stores))

(* ------------------------------- inputs -------------------------------- *)
T0 == <<"trig0">>
T1 == <<"trig1">>

Event(selected, hasMC, trigs, reco, gen, pairType, phi, kin, gate, mult, hits) ==
    [selected |-> selected, hasMC |-> hasMC, trigs |-> trigs, reco |-> reco, gen |-> gen,
     pairType |-> pairType, phi |-> phi, kin |-> kin, gate |-> gate, mult |-> mult, hits |-> hits]

\* n tracks, the first positive and the others negative
Tracks(n) == [k \in 1..n |-> IF k = 1 THEN 1 ELSE -1]

\* cut values 2, 2.000001 and 5; distances 1, 3 and 6
CutValues == {2000000, 2000001, 5000000}
Distances == {1000000, 3000000, 6000000}
CutArrays == SeqsUpTo(CutValues, MaxCuts)
Hits == [phi : {1, 5}, dist : Distances]

\* the events of Spec: rejected and accepted, with and without simulation
\* truth, one or two trigger classes, one or several selected tracks
MainCuts == {<<>>, <<2000000, 5000000>>}
MainLists == {<<>>, <<"a">>}
MainEvents ==
    {Event(sel, mc, trigs, reco, Tracks(2), <<"a">>, 1, 1, {T0, T1}, TRUE,
           <<[phi |-> 1, dist |-> 3000000]>>) :
        sel \in BOOLEAN, mc \in BOOLEAN, trigs \in {<<T0>>, <<T0, T1>>},
        reco \in {Tracks(1), Tracks(MaxTracks)}}

\* the events of SpecCounter: one trigger class, two tracks or more, the
\* pair at pi/4 or at -pi/4, every list of tracklets
CounterEvents ==
    {Event(TRUE, FALSE, <<T0>>, Tracks(n), <<>>, <<"a">>, phi, 1, {T0}, TRUE, hits) :
        n \in 2..MaxTracks, phi \in {1, -1}, hits \in SeqsUpTo(Hits, MaxHits)}
    \cup {Event(TRUE, FALSE, <<T0>>, Tracks(2), <<>>, <<"a">>, 1, 1, {T0}, FALSE, <<>>)}

\* the requests and the event of SpecStore
StoreIdentifiers == {<<"/">> \o T0, <<"/", "x">>}
StoreNames == {"DimuSparse", "nevents", "other"}
StoreEvents ==
    {Event(TRUE, mc, <<T0>>, Tracks(2), Tracks(2), <<"a">>, 1, 1, {T0}, FALSE, <<>>) :
        mc \in BOOLEAN}

\* the allow-lists and the labels of SpecFilter
ListChars == {"a", "b", ","}
LabelChars == {"a", "b", ".", ","}
FilterLists == SeqsUpTo(ListChars, MaxList)
FilterEvents ==
    {Event(TRUE, FALSE, <<T0>>, Tracks(2), <<>>, label, 1, 1, {T0}, FALSE, <<>>) :
        label \in SeqsUpTo(LabelChars, MaxLabel)}

\* the events of SpecMerge: an opposite-sign pair in two bins, a same-sign pair
MergeEvents ==
    {Event(TRUE, FALSE, <<T0>>, Tracks(2), <<>>, <<"a">>, 1, 1, {T0}, FALSE, <<>>),
     Event(TRUE, FALSE, <<T0>>, Tracks(2), <<>>, <<"a">>, 1, 2, {T0}, FALSE, <<>>),
     Event(TRUE, FALSE, <<T0>>, <<1, 1>>, <<>>, <<"a">>, 1, 1, {T0}, FALSE, <<>>)}

\* the events of SpecPairs: one rejected event, and accepted ones with and
\* without simulation truth, one or two trigger classes of which the pairs
\* match the pt cut of the first or of both, one track or several
PairCuts == {<<>>, <<2000000, 5000000>>, <<2000000, 2000001>>}
PairLists == {<<>>, <<"b">>}
PairEvents ==
    {Event(TRUE, mc, trigs, reco, Tracks(2), <<"a">>, 1, 1, gate, TRUE,
           <<[phi |-> 1, dist |-> 3000000]>>) :
        mc \in BOOLEAN, trigs \in {<<T0>>, <<T0, T1>>},
        reco \in {Tracks(1), Tracks(MaxPairTracks)}, gate \in {{T0}, {T0, T1}}}
    \cup {Event(FALSE, TRUE, <<T0, T1>>, Tracks(MaxPairTracks), Tracks(2), <<"a">>, 1, 1,
                {T0, T1}, TRUE, <<[phi |-> 1, dist |-> 3000000]>>)}

\* the events of SpecWindow: the pair at every multiple of pi/4 in (-pi, pi],
\* tracklets at every multiple of pi/4 in [0, 2 pi), all at distance 3
PairPhis == (1 - (TwoPi \div 2))..(TwoPi \div 2)
WindowHits == [phi : 0..(TwoPi - 1), dist : {3000000}]
WindowCuts == {<<>>, <<2000000, 5000000>>}
WindowEvents ==
    {Event(TRUE, FALSE, <<T0>>, Tracks(2), <<>>, <<"a">>, phi, 1, {T0}, TRUE, hits) :
        phi \in PairPhis, hits \in SeqsUpTo(WindowHits, MaxHits)}

(* ------------------------------- state --------------------------------- *)
\* fTrackletDistCuts, fSelectedPairTypes, fSparse and fMergeableCollection
\* are the task's members.  history lists the events the task has processed,
\* nCreated counts the objects GetMergeableObject has made for it, outputs
\* holds the collections of the finished tasks, merged their merge, and last
\* describes the latest call.
Init ==
    /\ fTrackletDistCuts = <<>>
    /\ fSelectedPairTypes = <<>>
    /\ fSparse = [isNull |-> TRUE, content |-> EmptyBag]
    /\ fMergeableCollection = [isNull |-> TRUE, list |-> <<>>]
    /\ history = <<>>
    /\ nCreated = 0
    /\ outputs = <<>>
    /\ merged = <<>>
    /\ last = [op |-> "AliAnalysisTaskDimu"]

\* SetTrackletDistCuts(cuts, nCuts), called while the task is configured
DoSetTrackletDistCuts(arrays) ==
    \E cuts \in arrays :
        /\ fMergeableCollection.isNull
        /\ fTrackletDistCuts' = SetTrackletDistCuts(fTrackletDistCuts, cuts)
        /\ last' = [op |-> "SetTrackletDistCuts", cuts |-> cuts, again |-> fTrackletDistCuts /= <<>>]
        /\ UNCHANGED <<fSelectedPairTypes, fSparse, fMergeableCollection, history, nCreated, outputs, merged>>

\* the setter of fSelectedPairTypes, called while the task is configured
DoSetSelectedPairTypes(lists) ==
    \E list \in lists :
        /\ fMergeableCollection.isNull
        /\ fSelectedPairTypes' = list
        /\ last' = [op |-> "SetSelectedPairTypes"]
        /\ UNCHANGED <<fTrackletDistCuts, fSparse, fMergeableCollection, history, nCreated, outputs, merged>>

\* UserCreateOutputObjects: the empty template and the empty collection
DoUserCreateOutputObjects ==
    /\ fMergeableCollection.isNull
    /\ fSparse' = [isNull |-> FALSE, content |-> EmptyBag]
    /\ fMergeableCollection' = [isNull |-> FALSE, list |-> <<>>]
    /\ last' = [op |-> "UserCreateOutputObjects"]
    /\ UNCHANGED <<fTrackletDistCuts, fSelectedPairTypes, history, nCreated, outputs, merged>>

\* UserExec on one more event, while cond holds
DoUserExec(events, cond) ==
    \E ev \in events :
        /\ ~fMergeableCollection.isNull
        /\ cond
        /\ LET done == UserExec(fMergeableCollection.list, fSparse, fTrackletDistCuts,
                                fSelectedPairTypes, ev)
           IN  /\ fMergeableCollection' = [fMergeableCollection EXCEPT !.list = done.coll]
               /\ nCreated' = nCreated + done.created
        /\ history' = Append(history, ev)
        /\ last' = [op |-> "UserExec", ev |-> ev,
                    pairs |-> EventPairs(fTrackletDistCuts, fSelectedPairTypes, ev)]
        /\ UNCHANGED <<fTrackletDistCuts, fSelectedPairTypes, fSparse, outputs, merged>>

\* one request GetMergeableObject(identifier, objectName) on the collection
DoGetMergeableObject(identifiers, names) ==
    \E identifier \in identifiers, objectName \in names :
        /\ ~fMergeableCollection.isNull
        /\ nCreated < MaxObjects
        /\ LET got == GetMergeableObject(fMergeableCollection.list, fSparse, identifier, objectName)
           IN  /\ fMergeableCollection' = [fMergeableCollection EXCEPT !.list = got.coll]
               /\ nCreated' = nCreated + got.created
               /\ last' = [op |-> "GetMergeableObject", identifier |-> identifier,
                           objectName |-> objectName, obj |-> got.obj,
                           created |-> got.created, error |-> got.error]
        /\ UNCHANGED <<fTrackletDistCuts, fSelectedPairTypes, fSparse, history, outputs, merged>>

\* the task ends: its collection goes to the merge stage and the next task,
\* configured alike, is constructed
DoFinishWorker ==
    /\ ~fMergeableCollection.isNull
    /\ Len(outputs) < MaxWorkers
    /\ outputs' = Append(outputs, [coll |-> fMergeableCollection.list, nEvents |-> Len(history)])
    /\ fSparse' = [isNull |-> TRUE, content |-> EmptyBag]
    /\ fMergeableCollection' = [isNull |-> TRUE, list |-> <<>>]
    /\ history' = <<>>
    /\ nCreated' = 0
    /\ last' = [op |-> "FinishWorker"]
    /\ UNCHANGED <<fTrackletDistCuts, fSelectedPairTypes, merged>>

\* the merge stage folds the outputs it holds
DoMerge ==
    /\ outputs /= <<>>
    /\ last.op = "FinishWorker"
    /\ merged' = FoldMerge(<<>>, [k \in 1..Len(outputs) |-> outputs[k].coll])
    /\ last' = [op |-> "Merge"]
    /\ UNCHANGED <<fTrackletDistCuts, fSelectedPairTypes, fSparse, fMergeableCollection, history, nCreated, outputs>>

RECURSIVE TotalEvents(_)
TotalEvents(outs) == IF outs = <<>> THEN 0 ELSE Head(outs).nEvents + TotalEvents(Tail(outs))

(* --------------------------- specifications ---------------------------- *)
\* one task: configured, initialised, then fed events
Next ==
    \/ DoSetTrackletDistCuts(MainCuts)
    \/ DoSetSelectedPairTypes(MainLists)
    \/ DoUserCreateOutputObjects
    \/ DoUserExec(MainEvents, Len(history) < MaxEvents)

Spec == Init /\ [][Next]_vars

\* the cut configuration and the tracklet scan: every cut array, then the
\* first event of the task with every list of tracklets
NextCounter ==
    \/ DoSetTrackletDistCuts(CutArrays)
    \/ DoUserCreateOutputObjects
    \/ DoUserExec(CounterEvents, history = <<>>)

SpecCounter == Init /\ [][NextCounter]_vars

\* the collection under direct requests and events
NextStore ==
    \/ DoUserCreateOutputObjects
    \/ DoGetMergeableObject(StoreIdentifiers, StoreNames)
    \/ DoUserExec(StoreEvents, Len(history) < MaxEvents)

SpecStore == Init /\ [][NextStore]_vars

\* the allow-list: every list, then the first event with every label
NextFilter ==
    \/ DoSetSelectedPairTypes(FilterLists)
    \/ DoUserCreateOutputObjects
    \/ DoUserExec(FilterEvents, history = <<>>)

SpecFilter == Init /\ [][NextFilter]_vars

\* several tasks, each with its own collection, and the merge stage
NextMerge ==
    \/ DoUserCreateOutputObjects
    \/ DoUserExec(MergeEvents, TotalEvents(outputs) + Len(history) < MaxMergeEvents)
    \/ DoFinishWorker
    \/ DoMerge

SpecMerge == Init /\ [][NextMerge]_vars

\* the pair loop and the event counters: a task fed events of every shape
NextPairs ==
    \/ DoSetTrackletDistCuts(PairCuts)
    \/ DoSetSelectedPairTypes(PairLists)
    \/ DoUserCreateOutputObjects
    \/ DoUserExec(PairEvents, Len(history) < MaxEvents)

SpecPairs == Init /\ [][NextPairs]_vars

\* the angular window: the first event of a task, the pair and the
\* tracklets anywhere on the circle
NextWindow ==
    \/ DoSetTrackletDistCuts(WindowCuts)
    \/ DoUserCreateOutputObjects
    \/ DoUserExec(WindowEvents, history = <<>>)

SpecWindow == Init /\ [][NextWindow]_vars

(* ------------------------------ claims --------------------------------- *)
\* the tracklets of the latest event inside the window of a pair at phi
InWindow(phi) ==
    {h \in 1..Len(last.ev.hits) : Abs(phi - last.ev.hits[h].phi) <= HalfPi}

\* the pairs of the latest event that passed the allow-list
KeptPairs == {k \in 1..Len(last.pairs) : last.pairs[k].kept}

\* C2: for every pair of an event and every stored cut list, the scan that
\* stops at the first failed cut counts, per cut, the tracklets in the window
\* whose distance is not above the cut, and in the last slot all the
\* tracklets in the window: what a scan of all the cuts would count.
C2_ScanEqualsFullScan ==
    last.op = "UserExec" =>
        \A k \in KeptPairs :
            LET pr == last.pairs[k]
                n == Len(fTrackletDistCuts)
            IN  /\ Len(pr.counts) = n + 1
                /\ \A i \in 1..n :
                      pr.counts[i] = Cardinality({h \in InWindow(pr.phi) :
                                         ~(last.ev.hits[h].dist > fTrackletDistCuts[i])})
                /\ pr.counts[n + 1] = Cardinality(InWindow(pr.phi))

\* cuts [5, 2], one tracklet in the window at distance 3: counts [1, 0, 1]
C2_Witness ==
    /\ last.op = "UserExec"
    /\ fTrackletDistCuts = <<5000000, 2000000>>
    /\ last.ev.phi = 1
    /\ last.ev.hits = <<[phi |-> 1, dist |-> 3000000]>>
    /\ last.pairs[1].kept
    /\ last.pairs[1].counts = <<1, 0, 1>>

\* C3: a distance that fails a stored cut fails every later (tighter) one,
\* so the counts per cut never grow with the cut's index and the last slot
\* is at least every count per cut.
C3_CountsNonIncreasing ==
    last.op = "UserExec" =>
        \A k \in KeptPairs :
            LET pr == last.pairs[k]
                n == Len(fTrackletDistCuts)
            IN  /\ \A i \in 1..n : \A j \in (i + 1)..n :
                      /\ pr.counts[i] >= pr.counts[j]
                      /\ \A h \in 1..Len(last.ev.hits) :
                            last.ev.hits[h].dist > fTrackletDistCuts[i]
                                => last.ev.hits[h].dist > fTrackletDistCuts[j]
                /\ \A i \in 1..n : pr.counts[n + 1] >= pr.counts[i]

\* two tracklets in the window, one of them between the two cuts
C3_Witness ==
    /\ last.op = "UserExec"
    /\ fTrackletDistCuts = <<5000000, 2000000>>
    /\ Len(last.ev.hits) = 2
    /\ last.pairs[1].kept
    /\ last.pairs[1].counts = <<2, 1, 2>>

\* C4: after SetTrackletDistCuts the stored list holds each distinct value of
\* the array once, in strictly decreasing order.
C4_SortedAndDeduplicated ==
    last.op = "SetTrackletDistCuts" =>
        /\ Range(fTrackletDistCuts) = Range(last.cuts)
        /\ \A i \in 1..Len(fTrackletDistCuts) : \A j \in (i + 1)..Len(fTrackletDistCuts) :
              fTrackletDistCuts[i] > fTrackletDistCuts[j]

\* C10: with no cut the counter has the one slot without a cut, it counts
\* the tracklets in the window, and each pair is filled once per trigger
\* class, at the level "none".
C10_EmptyCutList ==
    (last.op = "UserExec" /\ fTrackletDistCuts = <<>>) =>
        \A k \in KeptPairs :
            LET pr == last.pairs[k]
                trigs == SelectSeq(SelTrigClasses(last.ev, pr.istep),
                                   LAMBDA t : pr.istep /= kStepReconstructed \/ t \in last.ev.gate)
            IN  /\ pr.counts = <<Cardinality(InWindow(pr.phi))>>
                /\ Len(pr.fills) = Len(trigs)
                /\ \A t \in 1..Len(trigs) :
                      /\ pr.fills[t].identifier =
                            <<"/">> \o trigs[t] \o <<"/", "trackletDistCuts_", "none", "/">>
                            \o pr.pairType \o <<"/", pr.chargeType>>
                      /\ pr.fills[t].sample[3] = pr.counts[1]
                      /\ GetObject(fMergeableCollection.list, pr.fills[t].identifier, "DimuSparse") /= 0

\* no cut, one tracklet in the window: counts [1], one fill
C10_Witness ==
    /\ last.op = "UserExec"
    /\ fTrackletDistCuts = <<>>
    /\ Len(last.ev.hits) = 1
    /\ last.pairs[1].kept
    /\ last.pairs[1].counts = <<1>>
    /\ Len(last.pairs[1].fills) = 1

\* the object names the factory of GetMergeableObject knows
KnownNames == {"DimuSparse", "nevents"}

\* no two objects of a collection share identifier and name
OnePerPath(coll) ==
    \A k \in 1..Len(coll) : GetObject(coll, coll[k].identifier, coll[k].name) = k

\* C5: in every step on one collection each (identifier, name) holds at most
\* one object; the objects stay where they are with their kind, a histogram
\* for "DimuSparse" and a counter for "nevents"; every object was made once,
\* by the first request for it; a later request returns it and makes none.
C5_OneObjectPerPath ==
    [][LET old == fMergeableCollection.list
           new == fMergeableCollection'.list
       IN  /\ OnePerPath(new)
           /\ nCreated' = Len(new)
           /\ \A k \in 1..Len(new) :
                 new[k].kind = (IF new[k].name = "DimuSparse" THEN "THnSparse" ELSE "TH1D")
           /\ \A k \in 1..Len(old) :
                 /\ k <= Len(new)
                 /\ new[k].identifier = old[k].identifier
                 /\ new[k].name = old[k].name
                 /\ new[k].kind = old[k].kind
           /\ (last'.op = "GetMergeableObject" /\ last'.objectName \in KnownNames) =>
                 LET at == GetObject(old, last'.identifier, last'.objectName)
                 IN  IF at /= 0
                     THEN new = old /\ last'.obj = at /\ last'.created = 0
                     ELSE /\ Len(new) = Len(old) + 1
                          /\ last'.created = 1
                          /\ last'.obj = Len(new)
                          /\ GetObject(new, last'.identifier, last'.objectName) = Len(new)
      ]_vars

\* a second request for a histogram the collection holds, next to a counter
C5_Witness ==
    /\ last.op = "GetMergeableObject"
    /\ last.objectName = "DimuSparse"
    /\ last.created = 0
    /\ last.obj /= 0
    /\ Len(fMergeableCollection.list) >= 2
    /\ \E k \in 1..Len(fMergeableCollection.list) : fMergeableCollection.list[k].kind = "TH1D"

\* C6: a request for a name the factory does not know, at a path without
\* such an object, logs the error, returns no object and leaves the
\* collection as it was.
C6_UnknownObject ==
    [][(/\ last'.op = "GetMergeableObject"
        /\ last'.objectName \notin KnownNames
        /\ GetObject(fMergeableCollection.list, last'.identifier, last'.objectName) = 0)
       => /\ last'.error
          /\ last'.obj = 0
          /\ last'.created = 0
          /\ nCreated' = nCreated
          /\ fMergeableCollection' = fMergeableCollection
          /\ GetObject(fMergeableCollection'.list, last'.identifier, last'.objectName) = 0
      ]_vars

\* the unknown name asked for on a collection that holds objects
C6_Witness ==
    /\ last.op = "GetMergeableObject"
    /\ last.objectName = "other"
    /\ last.error
    /\ Len(fMergeableCollection.list) >= 1

\* C7: an event the event cuts reject leaves the collection as it was: no
\* object is made, no counter and no histogram is filled, in either pass.
C7_RejectedEvent ==
    [][(last'.op = "UserExec" /\ ~last'.ev.selected)
       => /\ fMergeableCollection' = fMergeableCollection
          /\ nCreated' = nCreated
          /\ last'.pairs = <<>>
      ]_vars

\* a rejected event with trigger classes, simulation truth and a pair,
\* after an accepted one
C7_Witness ==
    /\ last.op = "UserExec"
    /\ ~last.ev.selected
    /\ last.ev.hasMC
    /\ last.ev.trigs /= <<>>
    /\ Len(last.ev.reco) >= 2
    /\ Len(history) >= 2
    /\ fMergeableCollection.list /= <<>>

\* two collections hold the same paths with the same kind and bins
SameStore(a, b) ==
    /\ {<<a[k].identifier, a[k].name>> : k \in 1..Len(a)}
          = {<<b[k].identifier, b[k].name>> : k \in 1..Len(b)}
    /\ \A k \in 1..Len(a) :
          LET m == GetObject(b, a[k].identifier, a[k].name)
          IN  m /= 0 /\ b[m].kind = a[k].kind /\ b[m].content = a[k].content
    /\ Len(a) = Len(b)

\* a new task's collection after the events of a list, in the list's order
\* (Len(coll) is never negative: the test makes the evaluation of coll strict)
RECURSIVE ProcessAll(_, _)
ProcessAll(coll, events) ==
    IF events = <<>> \/ Len(coll) < 0 THEN coll
    ELSE ProcessAll(UserExec(coll, fSparse, fTrackletDistCuts, fSelectedPairTypes, Head(events)).coll,
                    Tail(events))

Orders(n) == {f \in [1..n -> 1..n] : \A i \in 1..n : \A j \in 1..n : f[i] = f[j] => i = j}

\* C8: the collection of a task is the one any other order of the events it
\* has processed gives: the same paths with the same bins.
C8_OrderIndependent ==
    ~fMergeableCollection.isNull =>
        \A f \in Orders(Len(history)) :
            SameStore(ProcessAll(<<>>, [k \in 1..Len(history) |-> history[f[k]]]),
                      fMergeableCollection.list)

\* two events whose other order makes the objects in another order
C8_Witness ==
    /\ Len(history) = 2
    /\ history[1] /= history[2]
    /\ Len(fMergeableCollection.list) >= 3
    /\ ProcessAll(<<>>, <<history[2], history[1]>>) /= fMergeableCollection.list
    /\ \E k \in 1..Len(fMergeableCollection.list) :
          BagCardinality(fMergeableCollection.list[k].content) >= 2

\* the comma-delimited segments of an allow-list
Segments(list) ==
    {SubSeq(list, a, b) : <<a, b>> \in
        {ab \in (1..(Len(list) + 1)) \X (0..Len(list)) :
            /\ ab[1] <= ab[2] + 1
            /\ ab[1] = 1 \/ list[ab[1] - 1] = ","
            /\ ab[2] = Len(list) \/ list[ab[2] + 1] = ","
            /\ \A k \in ab[1]..ab[2] : list[k] /= ","}}

\* C9: with an allow-list a pair is filled if and only if its label equals
\* one of the list's comma-delimited segments; without one every pair is.
C9_ExactSegmentMatch ==
    last.op = "UserExec" =>
        \A k \in 1..Len(last.pairs) :
            (last.pairs[k].fills /= <<>>)
                <=> (\/ fSelectedPairTypes = <<>>
                     \/ last.pairs[k].pairType \in Segments(fSelectedPairTypes))

\* the bins an object of a collection holds, 0 when it holds none
Weight(coll, identifier, name) ==
    IF GetObject(coll, identifier, name) = 0 THEN 0
    ELSE BagCardinality(coll[GetObject(coll, identifier, name)].content)

RECURSIVE TotalWeight(_, _, _)
TotalWeight(stores, identifier, name) ==
    IF stores = <<>> THEN 0
    ELSE Weight(Head(stores), identifier, name) + TotalWeight(Tail(stores), identifier, name)

\* the outputs merged pairwise, as a tree
RECURSIVE TreeMerge(_)
TreeMerge(stores) ==
    IF Len(stores) = 0 THEN <<>>
    ELSE IF Len(stores) = 1 THEN stores[1]
    ELSE Merge(TreeMerge(SubSeq(stores, 1, Len(stores) \div 2)),
               TreeMerge(SubSeq(stores, (Len(stores) \div 2) + 1, Len(stores))))

OutputStores == [k \in 1..Len(outputs) |-> outputs[k].coll]

\* C1: the merge of the tasks' collections depends neither on the order nor
\* on the grouping: Merge is associative and commutative on them, path by
\* path and bin by bin, the fold of the merge stage gives what a tree of
\* merges and what the fold in any other order give, and a path of the
\* result holds the entries of all the tasks at that path.
C1_MergeOrderFree ==
    last.op = "Merge" =>
        /\ \A a \in Range(OutputStores), b \in Range(OutputStores) :
              /\ SameStore(Merge(a, b), Merge(b, a))
              /\ \A c \in Range(OutputStores) :
                    SameStore(Merge(a, Merge(b, c)), Merge(Merge(a, b), c))
        /\ SameStore(merged, TreeMerge(OutputStores))
        /\ \A f \in Orders(Len(outputs)) :
              SameStore(merged, FoldMerge(<<>>, [k \in 1..Len(outputs) |-> outputs[f[k]].coll]))
        /\ \A k \in 1..Len(merged) :
              BagCardinality(merged[k].content)
                  = TotalWeight(OutputStores, merged[k].identifier, merged[k].name)

\* three tasks; two of them filled one pair at the same path, which holds
\* two entries after the merge
C1_Witness ==
    LET path == <<"/", "trig0", "/", "trackletDistCuts_", "none", "/", "a", "/", "OS">>
    IN  /\ last.op = "Merge"
        /\ Len(outputs) = 3
        /\ Weight(outputs[1].coll, path, "DimuSparse") = 1
        /\ Weight(outputs[2].coll, path, "DimuSparse") = 1
        /\ Weight(outputs[3].coll, path, "DimuSparse") = 0
        /\ outputs[3].coll /= <<>>
        /\ Weight(merged, path, "DimuSparse") = 2

\* the visits of the latest event's pair loop that belong to the pass istep
Visits(istep) == {k \in 1..Len(last.pairs) : last.pairs[k].istep = istep}

\* the trigger classes of a pass whose fills are not suppressed by the pt cut
ActiveTrigs(istep) ==
    {t \in Range(SelTrigClasses(last.ev, istep)) :
        istep /= kStepReconstructed \/ t \in last.ev.gate}

\* every unordered pair of distinct selected tracks of a pass is visited
\* once, and no track is paired with itself
VisitedOnce ==
    \A s \in Range(Steps(last.ev)) :
        LET n == Len(SelectedTracks(last.ev, s))
        IN  /\ \A k \in Visits(s) :
                  /\ last.pairs[k].itrack \in 1..n
                  /\ last.pairs[k].jtrack \in 1..n
                  /\ last.pairs[k].itrack /= last.pairs[k].jtrack
            /\ \A i \in 1..n : \A j \in 1..n :
                  i /= j => Cardinality({k \in Visits(s) :
                                {last.pairs[k].itrack, last.pairs[k].jtrack} = {i, j}}) = 1

\* a pair that passed the allow-list has one fill for each active trigger
\* class and each level, at the path of the class, the level's name, the
\* pair type and the charge label, with the level's count, and no other fill
FillPerCombination ==
    \A k \in KeptPairs :
        LET pr == last.pairs[k]
            levels == Len(fTrackletDistCuts) + 1
            names == TrackletDistCutsName(fTrackletDistCuts)
        IN  /\ Len(pr.fills) = Cardinality(ActiveTrigs(pr.istep)) * levels
            /\ \A t \in ActiveTrigs(pr.istep) : \A icut \in 1..levels :
                  Cardinality({f \in 1..Len(pr.fills) :
                      /\ pr.fills[f].trigClass = t
                      /\ pr.fills[f].icut = icut
                      /\ pr.fills[f].identifier =
                            <<"/">> \o t \o <<"/">> \o names[icut] \o <<"/">> \o pr.pairType
                            \o <<"/", pr.chargeType>>
                      /\ pr.fills[f].sample[3] = pr.counts[icut]}) = 1

\* no two fills of one pair go to the same path
PathFilledOncePerPair ==
    \A k \in KeptPairs :
        \A f \in 1..Len(last.pairs[k].fills) : \A g \in 1..Len(last.pairs[k].fills) :
            last.pairs[k].fills[f].identifier = last.pairs[k].fills[g].identifier => f = g

\* the fills of the latest event that go to the path identifier
FillsAt(identifier) ==
    UNION {{<<k, f>> : f \in {g \in 1..Len(last.pairs[k].fills) :
                                 last.pairs[k].fills[g].identifier = identifier}} :
           k \in 1..Len(last.pairs)}

\* the histograms of a task's first event hold the fills of its pairs
FillsStored ==
    Len(history) = 1 =>
        /\ \A k \in 1..Len(last.pairs) : \A f \in 1..Len(last.pairs[k].fills) :
              GetObject(fMergeableCollection.list, last.pairs[k].fills[f].identifier, "DimuSparse") /= 0
        /\ \A m \in 1..Len(fMergeableCollection.list) :
              fMergeableCollection.list[m].name = "DimuSparse" =>
                  BagCardinality(fMergeableCollection.list[m].content)
                      = Cardinality(FillsAt(fMergeableCollection.list[m].identifier))

\* C11: in an accepted event each unordered pair of distinct selected tracks
\* of a pass is visited once; a pair that passes the allow-list is filled
\* once for every active trigger class (those matching the pt cut in the
\* reconstructed pass, all in the generated pass) and every cut level, the
\* one without a cut included, at the path of class, level, pair type and
\* charge label, with the level's count; so no path is filled twice by a pair.
C11_OneFillPerPathAndPair ==
    (last.op = "UserExec" /\ last.ev.selected) =>
        /\ VisitedOnce
        /\ FillPerCombination
        /\ FillsStored
        /\ PathFilledOncePerPair

\* the events of the history that were accepted and satisfy P
Accepted(P(_)) == {k \in 1..Len(history) : history[k].selected /\ P(history[k])}

\* C12: after any sequence of events the counter "nevents" at the path of a
\* trigger class holds as many entries as accepted events had the class among
\* their selected trigger classes, and the counter at "/generated" as many as
\* accepted events had simulation truth, whatever the number of selected
\* tracks and of filled pairs; the collection holds no other counter.
C12_EventCounters ==
    ~fMergeableCollection.isNull =>
        /\ \A t \in {T0, T1} :
              Weight(fMergeableCollection.list, <<"/">> \o t, "nevents")
                  = Cardinality(Accepted(LAMBDA ev : t \in Range(ev.trigs)))
        /\ Weight(fMergeableCollection.list, <<"/", "generated">>, "nevents")
              = Cardinality(Accepted(LAMBDA ev : ev.hasMC))
        /\ \A m \in 1..Len(fMergeableCollection.list) :
              fMergeableCollection.list[m].name = "nevents" =>
                  /\ fMergeableCollection.list[m].identifier
                        \in {<<"/">> \o T0, <<"/">> \o T1, <<"/", "generated">>}
                  /\ BagToSet(fMergeableCollection.list[m].content) = {<<1>>}

\* a rejected event, then an accepted one with two trigger classes, simulation
\* truth and one selected track; no pair was filled
C12_Witness ==
    /\ Len(history) = 2
    /\ ~history[1].selected
    /\ history[2].selected /\ history[2].hasMC
    /\ history[2].trigs = <<T0, T1>>
    /\ Len(history[2].reco) = 1
    /\ fSelectedPairTypes = <<"b">>
    /\ Weight(fMergeableCollection.list, <<"/">> \o T1, "nevents") = 1
    /\ Weight(fMergeableCollection.list, <<"/", "generated">>, "nevents") = 1
    /\ \A m \in 1..Len(fMergeableCollection.list) :
          fMergeableCollection.list[m].name /= "DimuSparse"

\* the distance of two azimuths on the circle [0, 2 pi)
AngularDistance(a, b) ==
    LET d == Abs(a - b) % TwoPi
    IN  IF d > TwoPi - d THEN TwoPi - d ELSE d

\* the tracklets of the latest event at most pi/2 away from phi on the circle
InAngularWindow(phi) ==
    {h \in 1..Len(last.ev.hits) : AngularDistance(phi, last.ev.hits[h].phi) <= HalfPi}

\* C13: a tracklet is counted for a pair if and only if its angular distance
\* to the pair's azimuth, on the circle, is at most pi/2: the slot without a
\* cut counts the tracklets within pi/2, those across the 0 / 2 pi boundary
\* included, and each cut's slot counts those of them that pass the cut.
C13_AngularWindow ==
    last.op = "UserExec" =>
        \A k \in KeptPairs :
            LET pr == last.pairs[k]
                n == Len(fTrackletDistCuts)
            IN  /\ pr.counts[n + 1] = Cardinality(InAngularWindow(pr.phi))
                /\ \A i \in 1..n :
                      pr.counts[i] = Cardinality({h \in InAngularWindow(pr.phi) :
                                         ~(last.ev.hits[h].dist > fTrackletDistCuts[i])})

====
